---- MODULE Spec2Model ----
(***************************************************************************)
(* Model of src/data.py: the coreference corpus loader (CorefDataset), its *)
(* word-to-subtoken span remapping, the cluster / batch padding and the    *)
(* existence-based dataset cache (get_dataset).                            *)
(*                                                                         *)
(* Python lists are sequences (1-based here, 0-based in the source: word   *)
(* index idx of the source is position idx + 1 of the sequence); Python    *)
(* dicts are functions whose DOMAIN is the set of keys, so that a lookup   *)
(* of a missing key (KeyError) is a test on the DOMAIN.                    *)
(***************************************************************************)
EXTENDS Integers, Sequences, FiniteSets, TLC

VARIABLES
    \* ---- CorefDataset.__init__ / _parse_jsonlines / _tokenize
    file,                         \* the lines of the corpus file (parsed JSON records)
    max_seq_length,               \* self.max_seq_length
    pc,                           \* position of the constructor
    examples,                     \* list of (doc_key, input_words, clusters)
    max_mention_num,
    max_cluster_size,
    max_num_clusters,
    doc,                          \* number of documents _tokenize has gone through
    word_idx_to_start_token_idx,  \* locals of the last _tokenize iteration
    word_idx_to_end_token_idx,
    end_token_idx_to_word_idx,
    token_ids,
    coref_examples,
    lengths,
    num_examples_filtered,
    raised,                       \* the exception that left the constructor, or "none"
    self_examples,                \* self.examples once _tokenize has returned
    \* ---- pad_clusters / pad_batch
    pad_pc,                       \* position of the caller of the padding functions
    clusters_arg,                 \* the caller's list, as its pad_clusters call left it
    clusters_given,               \* the value of that list when pad_clusters was called
    clusters_padded,              \* the outcome of the caller's pad_clusters call
    max_length,                   \* pad_batch's max_length (after line 120)
    padded_batch,                 \* pad_batch's padded_batch: tensor shapes per example
    tensored_batch,               \* the outcome of pad_batch: the shapes of the three tensors
    \* ---- get_dataset
    disk,                         \* the files args names: path -> content
    args,                         \* args.max_seq_length
    call,                         \* the last get_dataset call and its outcome
    first_built                   \* per split, the collection the first building call built

loadVars == <<file, max_seq_length, pc, examples, max_mention_num, max_cluster_size,
              max_num_clusters, doc, word_idx_to_start_token_idx,
              word_idx_to_end_token_idx, end_token_idx_to_word_idx, token_ids,
              coref_examples, lengths, num_examples_filtered, raised, self_examples>>

padVars == <<pad_pc, clusters_arg, clusters_given, clusters_padded, max_length,
             padded_batch, tensored_batch>>

cacheVars == <<disk, args, call, first_built>>

vars == <<loadVars, padVars, cacheVars>>

----------------------------------------------------------------------------
(* Bounds of the model *)

MaxWords == 2        \* words of a document of the single-document family
MaxDocs == 3         \* documents of a corpus of the multi-document family
MaxSents == 2        \* sentences of a document of the sentence family
MaxSeqLen == 3       \* largest max_seq_length tried
MaxPadClusters == 2  \* largest max_num_clusters of a dataset that pads
MaxPadSize == 3      \* largest max_cluster_size of a dataset that pads
MaxBatch == 2        \* examples of a batch
MaxLength == 2       \* largest max_length given to pad_batch

----------------------------------------------------------------------------
(* General helpers *)

\* a running maximum that keeps the last value only
MaxLast(a, b) == b

\* Python's max(a, b)
Max(a, b) == IF a >= b THEN a ELSE b

\* Python's max() over a non-empty collection of integers
MaxOf(S) == CHOOSE x \in S : \A y \in S : y <= x

\* all sequences over S of length at most n
SeqsUpTo(S, n) == UNION {[1..k -> S] : k \in 0..n}

\* utils.flatten_list_of_lists: the concatenation of the inner lists, in order
RECURSIVE flatten_list_of_lists(_)
flatten_list_of_lists(ll) ==
    IF ll = <<>> THEN <<>> ELSE Head(ll) \o flatten_list_of_lists(Tail(ll))

\* tokenizer.tokenize(word): the external subword tokenizer. A word expands to
\* zero, one or two subtokens.
tokenize(word) ==
    CASE word = "" -> <<>>
      [] word = "Johnson" -> <<"John", "son">>
      [] OTHER -> <<word>>

Vocab == {"", "He", "Johnson"}

----------------------------------------------------------------------------
(* CorefDataset._parse_jsonlines *)

\* lines 50-61: the body of the loop over the lines of the file; d is the value
\* of json.loads(line), acc the values of the locals before the line
ParseLine(acc, d) ==
    LET doc_key == d.doc_key
        input_words == flatten_list_of_lists(d.sentences)
        clusters == d.clusters
    IN  [examples |-> Append(acc.examples,
                             [doc_key |-> doc_key, input_words |-> input_words,
                              clusters |-> clusters]),
         max_mention_num |->
             Max(acc.max_mention_num, Len(flatten_list_of_lists(clusters))),
         max_cluster_size |->
             Max(acc.max_cluster_size,
                 IF clusters # <<>>
                 THEN MaxOf({Len(clusters[c]) : c \in DOMAIN clusters})
                 ELSE 0),
         max_num_clusters |->
             Max(acc.max_num_clusters, IF clusters # <<>> THEN Len(clusters) ELSE 0)]

\* lines 38-62: the state of the locals after the first k lines
RECURSIVE ParseLoop(_, _)
ParseLoop(f, k) ==
    IF k = 0
    THEN [examples |-> <<>>, max_mention_num |-> -1, max_cluster_size |-> -1,
          max_num_clusters |-> -1]
    ELSE ParseLine(ParseLoop(f, k - 1), f[k])

_parse_jsonlines(f) == ParseLoop(f, Len(f))

----------------------------------------------------------------------------
(* CorefDataset._tokenize *)

\* d[key] = value on a dict
DictSet(d, key, value) ==
    [x \in (DOMAIN d) \cup {key} |-> IF x = key THEN value ELSE d[x]]

\* line 76 with the +1 for <s> left out
StartTokenIdxNoOffset(ids) == Len(ids)

\* line 76: the index of a word's first subtoken, from the ids emitted before it
StartTokenIdx(ids) == Len(ids) + 1

\* line 81 counting one past the word's last subtoken
EndTokenIdxOnePast(ids) == Len(ids) + 1

\* line 81: the index of a word's last subtoken, from the ids emitted through it
EndTokenIdx(ids) == Len(ids)

\* lines 70-81: the locals after the first k words of the document
RECURSIVE WordLoop(_, _)
WordLoop(words, k) ==
    IF k = 0
    THEN [word_idx_to_start_token_idx |-> <<>>,
          word_idx_to_end_token_idx |-> <<>>,
          end_token_idx_to_word_idx |-> <<0>>,
          token_ids |-> <<>>]
    ELSE LET p == WordLoop(words, k - 1)
             idx == k - 1
             tokenized == tokenize(words[k])
             ids == p.token_ids \o tokenized
         IN  [word_idx_to_start_token_idx |->
                  DictSet(p.word_idx_to_start_token_idx, idx, StartTokenIdx(p.token_ids)),
              word_idx_to_end_token_idx |->
                  DictSet(p.word_idx_to_end_token_idx, idx, EndTokenIdx(ids)),
              end_token_idx_to_word_idx |->
                  p.end_token_idx_to_word_idx \o [j \in 1..Len(tokenized) |-> idx],
              token_ids |-> ids]

\* a failing dict lookup as list indexing would behave: a negative index counts
\* from the end of the list
ListLookup(d, key) ==
    LET n == Cardinality(DOMAIN d)
    IN  IF key >= 0 /\ key < n THEN [raised |-> "none", value |-> d[key]]
        ELSE IF key < 0 /\ key >= -n THEN [raised |-> "none", value |-> d[n + key]]
        ELSE [raised |-> "IndexError", value |-> 0]

\* line 88: d[key] on a dict raises KeyError for every key that was never set
DictLookup(d, key) ==
    IF key \in DOMAIN d
    THEN [raised |-> "none", value |-> d[key]]
    ELSE [raised |-> "KeyError", value |-> 0]

\* line 88: one mention of the comprehension; "for start, end in cluster" unpacks
\* the mention into exactly two values
RemapMention(m, starts, ends) ==
    IF Len(m) # 2
    THEN [raised |-> "ValueError", value |-> <<0, 0>>]
    ELSE LET first == DictLookup(starts, m[1])
             last == DictLookup(ends, m[2] - 1)
         IN  IF first.raised # "none"
             THEN [raised |-> first.raised, value |-> <<0, 0>>]
             ELSE IF last.raised # "none"
             THEN [raised |-> last.raised, value |-> <<0, 0>>]
             ELSE [raised |-> "none", value |-> <<first.value, last.value>>]

\* lines 87-89: the comprehension over all clusters; the first mention that
\* raises (in cluster order, then mention order) ends it
RemapClusters(clusters, starts, ends) ==
    LET r == [c \in DOMAIN clusters |->
                 [j \in DOMAIN clusters[c] |->
                     RemapMention(clusters[c][j], starts, ends)]]
        bad == UNION {{<<c, j>> : j \in {x \in DOMAIN clusters[c] : r[c][x].raised # "none"}} :
                          c \in DOMAIN clusters}
        firstBad == CHOOSE cj \in bad :
                        \A o \in bad : cj[1] < o[1] \/ (cj[1] = o[1] /\ cj[2] <= o[2])
    IN  IF bad = {}
        THEN [raised |-> "none",
              value |-> [c \in DOMAIN clusters |->
                            [j \in DOMAIN clusters[c] |-> r[c][j].value]]]
        ELSE [raised |-> r[firstBad[1]][firstBad[2]].raised, value |-> <<>>]

\* line 83 dropping a document that exactly fills the budget
TooLongInclusive(ids, maxlen) == 0 < maxlen /\ maxlen <= Len(ids)

\* line 83: the length filter
TooLong(ids, maxlen) == 0 < maxlen /\ maxlen < Len(ids)

\* lines 69-98: the body of the loop over the examples; st holds the lists and
\* the counter before the example, and the exception that leaves the function
TokenizeBody(st, ex, maxlen) ==
    LET w == WordLoop(ex.input_words, Len(ex.input_words))
        new_clusters == RemapClusters(ex.clusters, w.word_idx_to_start_token_idx,
                                      w.word_idx_to_end_token_idx)
    IN  IF TooLong(w.token_ids, maxlen)
        THEN [st EXCEPT !.num_examples_filtered = @ + 1]
        ELSE IF new_clusters.raised # "none"
        THEN [st EXCEPT !.raised = new_clusters.raised]
        ELSE [st EXCEPT
                 !.lengths = Append(@, Len(w.token_ids)),
                 !.coref_examples =
                     Append(@, <<(<<ex.doc_key, w.end_token_idx_to_word_idx>>),
                                 [token_ids |-> w.token_ids,
                                  clusters |-> new_clusters.value]>>)]

\* lines 66-99: the lists and the counter after the first k examples; an
\* exception ends the loop
RECURSIVE TokenizeLoop(_, _, _)
TokenizeLoop(exs, maxlen, k) ==
    IF k = 0
    THEN [coref_examples |-> <<>>, lengths |-> <<>>, num_examples_filtered |-> 0,
          raised |-> "none"]
    ELSE LET p == TokenizeLoop(exs, maxlen, k - 1)
         IN  IF p.raised # "none" THEN p ELSE TokenizeBody(p, exs[k], maxlen)

_tokenize(exs, maxlen) == TokenizeLoop(exs, maxlen, Len(exs))

----------------------------------------------------------------------------
(* The corpus files the constructor is run on *)

Record(key, sentences, clusters) ==
    [doc_key |-> key, sentences |-> sentences, clusters |-> clusters]

\* Single documents of one sentence with every kind of mention: in range,
\* out of range on either side, empty or reversed, and not a pair at all.
MentionsA ==
    {<<s, e>> : s \in -1..MaxWords, e \in 0..(MaxWords + 1)} \cup {<<0, 0, 1>>, <<0>>}

ClusterListsA ==
    {<<>>} \cup {<< <<m>> >> : m \in MentionsA}
           \cup {<< <<(<<0, 1>>), m>> >> : m \in MentionsA}
           \cup {<< <<m>>, <<(<<0, 1>>)>> >> : m \in MentionsA}

CorporaA ==
    {<<Record("1", <<ws>>, cl)>> : ws \in SeqsUpTo(Vocab, MaxWords), cl \in ClusterListsA}

\* Corpora of several documents with well-formed mentions and every shape of
\* cluster list: none, an empty cluster, clusters of different sizes.
WordsB == {<<"He">>, <<"He", "Johnson">>}

ShapesB == {<<>>, <<0>>, <<2, 1>>}

ClustersOfShape(shape) ==
    [c \in DOMAIN shape |-> [j \in 1..shape[c] |-> <<0, 1>>]]

DocsB == {[sentences |-> <<ws>>, clusters |-> ClustersOfShape(sh)] :
              ws \in WordsB, sh \in ShapesB}

CorporaB ==
    {[k \in DOMAIN ds |-> Record(ToString(k), ds[k].sentences, ds[k].clusters)] :
         ds \in SeqsUpTo(DocsB, MaxDocs)}

\* Single documents of several sentences, with mentions given as pairs or as
\* (sentence, start, end) triples.
SentencesC == SeqsUpTo(SeqsUpTo({"He", "Johnson"}, 2), MaxSents)

ClusterListsC == {<<>>, << <<(<<0, 1>>)>> >>, << <<(<<0, 0, 1>>), (<<0, 1, 2>>)>> >>}

CorporaC == {<<Record("1", ss, cl)>> : ss \in SentencesC, cl \in ClusterListsC}

\* The document of the source's example (lines 94-97), one subtoken per word
ScenarioWords ==
    <<"John", "Smith", "is", "a", "nice", "guy", ".", "He", "lives", "in", "London", ".">>

ScenarioCorpus == <<Record("scenario", <<ScenarioWords>>, << <<(<<0, 2>>), (<<7, 8>>)>> >>)>>

Corpora == CorporaA \cup CorporaB \cup CorporaC \cup {ScenarioCorpus}

SeqLengths == -1..MaxSeqLen

----------------------------------------------------------------------------
(* CorefDataset.__init__ as a state machine *)

NoDict == <<>>

LoadInit ==
    /\ file \in Corpora
    /\ max_seq_length \in SeqLengths
    /\ pc = "parse"
    /\ examples = <<>>
    /\ max_mention_num = -1
    /\ max_cluster_size = -1
    /\ max_num_clusters = -1
    /\ doc = 0
    /\ word_idx_to_start_token_idx = NoDict
    /\ word_idx_to_end_token_idx = NoDict
    /\ end_token_idx_to_word_idx = <<>>
    /\ token_ids = <<>>
    /\ coref_examples = <<>>
    /\ lengths = <<>>
    /\ num_examples_filtered = 0
    /\ raised = "none"
    /\ self_examples = <<>>

\* line 22: examples and the three maxima from _parse_jsonlines
ParseJsonlines ==
    /\ pc = "parse"
    /\ LET r == _parse_jsonlines(file)
       IN  /\ examples' = r.examples
           /\ max_mention_num' = r.max_mention_num
           /\ max_cluster_size' = r.max_cluster_size
           /\ max_num_clusters' = r.max_num_clusters
    /\ pc' = "tokenize"
    /\ UNCHANGED <<file, max_seq_length, doc, word_idx_to_start_token_idx,
                   word_idx_to_end_token_idx, end_token_idx_to_word_idx, token_ids,
                   coref_examples, lengths, num_examples_filtered, raised,
                   self_examples, padVars, cacheVars>>

\* lines 69-98: one iteration of the loop of _tokenize over the examples
TokenizeExample ==
    /\ pc = "tokenize"
    /\ doc < Len(examples)
    /\ LET ex == examples[doc + 1]
           w == WordLoop(ex.input_words, Len(ex.input_words))
           r == TokenizeBody([coref_examples |-> coref_examples, lengths |-> lengths,
                              num_examples_filtered |-> num_examples_filtered,
                              raised |-> raised],
                             ex, max_seq_length)
       IN  /\ word_idx_to_start_token_idx' = w.word_idx_to_start_token_idx
           /\ word_idx_to_end_token_idx' = w.word_idx_to_end_token_idx
           /\ end_token_idx_to_word_idx' = w.end_token_idx_to_word_idx
           /\ token_ids' = w.token_ids
           /\ coref_examples' = r.coref_examples
           /\ lengths' = r.lengths
           /\ num_examples_filtered' = r.num_examples_filtered
           /\ raised' = r.raised
           /\ IF r.raised # "none"
              THEN pc' = "raised" /\ doc' = doc
              ELSE pc' = pc /\ doc' = doc + 1
    /\ UNCHANGED <<file, max_seq_length, examples, max_mention_num, max_cluster_size,
                   max_num_clusters, self_examples, padVars, cacheVars>>

\* lines 99 and 24: _tokenize returns and the constructor stores its results
TokenizeReturn ==
    /\ pc = "tokenize"
    /\ doc = Len(examples)
    /\ self_examples' = coref_examples
    /\ pc' = "done"
    /\ UNCHANGED <<file, max_seq_length, examples, max_mention_num, max_cluster_size,
                   max_num_clusters, doc, word_idx_to_start_token_idx,
                   word_idx_to_end_token_idx, end_token_idx_to_word_idx, token_ids,
                   coref_examples, lengths, num_examples_filtered, raised, padVars,
                   cacheVars>>

PadUnused ==
    /\ pad_pc = "unused"
    /\ clusters_arg = <<>>
    /\ clusters_given = <<>>
    /\ clusters_padded = [raised |-> "none", value |-> <<>>]
    /\ max_length = 0
    /\ padded_batch = <<>>
    /\ tensored_batch = [raised |-> "none", shapes |-> <<>>]

CacheUnused ==
    /\ disk = <<>>
    /\ args = <<>>
    /\ call = <<>>
    /\ first_built = <<>>

Init == LoadInit /\ PadUnused /\ CacheUnused

Next == ParseJsonlines \/ TokenizeExample \/ TokenizeReturn

Spec == Init /\ [][Next]_vars

----------------------------------------------------------------------------
(* Quantities the properties are stated in, counted from the input alone *)

\* the subtokens of the words at positions a..b, as (position, piece) pairs
Pieces(words, a, b) ==
    UNION {{<<j, t>> : t \in 1..Len(tokenize(words[j]))} : j \in a..b}

\* subtokens emitted before the word of (0-based) index w
EmittedBefore(words, w) == Cardinality(Pieces(words, 1, w))

\* subtokens emitted once the word of (0-based) index w has been tokenized
EmittedThrough(words, w) == Cardinality(Pieces(words, 1, w + 1))

TotalSubtokens(words) == Cardinality(Pieces(words, 1, Len(words)))

\* the document whose locals the state holds: the one that raised, else the
\* last one the loop went through
LastDoc == IF pc = "raised" THEN doc + 1 ELSE doc

\* document k is over the budget
Overlong(k) ==
    max_seq_length > 0 /\ TotalSubtokens(examples[k].input_words) > max_seq_length

\* the documents gone through so far that are not over the budget, in order
KeptDocs == SelectSeq([k \in 1..doc |-> k], LAMBDA k : ~Overlong(k))

HasZeroWord(words) == \E j \in DOMAIN words : tokenize(words[j]) = <<>>

WordRange(words) == 0..(Len(words) - 1)

IsPair(m) == Len(m) = 2

InRange(m, words) == m[1] \in WordRange(words) /\ (m[2] - 1) \in WordRange(words)

MentionsOf(clusters) ==
    UNION {{clusters[c][j] : j \in DOMAIN clusters[c]} : c \in DOMAIN clusters}

----------------------------------------------------------------------------
(* C1 *)

C1_ScenarioReached ==
    file = ScenarioCorpus /\ pc = "done" /\ Len(self_examples) = 1

----------------------------------------------------------------------------
(* C2 *)

\* the remapped mentions of the retained documents, each with the words of its
\* document, the word-level mention it comes from and the document's token count
Remapped ==
    UNION {UNION {{[words |-> examples[KeptDocs[k]].input_words,
                    mention |-> examples[KeptDocs[k]].clusters[c][j],
                    span |-> coref_examples[k][2].clusters[c][j],
                    n |-> Len(coref_examples[k][2].token_ids)] :
                       j \in DOMAIN coref_examples[k][2].clusters[c]} :
                  c \in DOMAIN coref_examples[k][2].clusters} :
           k \in DOMAIN coref_examples}

\* C2 as stated: for every retained document and every mention with word
\* indices inside the word range, both coordinates of the remapped span lie in
\* [1, len(token_ids)], and first <= last whenever no word of the document
\* tokenizes to zero subtokens.
C2_AsStated ==
    \A r \in Remapped :
        /\ r.span[1] \in 1..r.n
        /\ r.span[2] \in 1..r.n
        /\ ~HasZeroWord(r.words) => r.span[1] <= r.span[2]

\* C2 amended: for every retained document and every mention with word indices
\* inside the word range, first lies in [1, len(token_ids) + 1] and last in
\* [0, len(token_ids)]; when no word of the document tokenizes to zero subtokens
\* both lie in [1, len(token_ids)], and first <= last when in addition
\* start_word < end_word_exclusive.
C2_SpanBounds ==
    \A r \in Remapped :
        /\ r.span[1] \in 1..(r.n + 1)
        /\ r.span[2] \in 0..r.n
        /\ ~HasZeroWord(r.words) =>
              /\ r.span[1] \in 1..r.n
              /\ r.span[2] \in 1..r.n
              /\ r.mention[1] < r.mention[2] => r.span[1] <= r.span[2]

\* a retained document without zero-subtoken words whose mention covers two
\* words, the second of two subtokens
C2_Witness ==
    /\ pc = "done"
    /\ \E r \in Remapped :
          /\ ~HasZeroWord(r.words)
          /\ r.mention = <<0, 2>>
          /\ r.span = <<1, 3>>
          /\ r.n = 3

----------------------------------------------------------------------------
(* C3 *)

\* C3: a document is absent from the output exactly when max_seq_length > 0 and
\* its subtoken count is strictly greater than max_seq_length (one of exactly
\* max_seq_length subtokens is kept); num_examples_filtered is the number of
\* dropped documents; with max_seq_length <= 0 every document is kept and the
\* counter is 0.
C3_LengthFilter ==
    /\ num_examples_filtered = Cardinality({k \in 1..doc : Overlong(k)})
    /\ [k \in DOMAIN coref_examples |-> coref_examples[k][1][1]]
           = [k \in DOMAIN KeptDocs |-> examples[KeptDocs[k]].doc_key]
    /\ lengths = [k \in DOMAIN KeptDocs |-> TotalSubtokens(examples[KeptDocs[k]].input_words)]
    /\ \A k \in DOMAIN coref_examples :
          Len(coref_examples[k][2].token_ids) = lengths[k]
    /\ max_seq_length <= 0 =>
          num_examples_filtered = 0 /\ Len(coref_examples) = doc
    /\ pc = "done" => self_examples = coref_examples /\ doc = Len(examples)

\* a corpus of which one document was dropped and one of exactly
\* max_seq_length subtokens was kept
C3_Witness ==
    /\ pc = "done"
    /\ num_examples_filtered = 1
    /\ \E k \in DOMAIN self_examples :
          Len(self_examples[k][2].token_ids) = max_seq_length

----------------------------------------------------------------------------
(* C7 *)

BadPair(m, words) == IsPair(m) /\ ~InRange(m, words)

\* C7: a document that survives the length filter and has a mention whose
\* start_word or end_word_exclusive - 1 is outside [0, len(words)) makes
\* _tokenize raise an indexing error and return nothing; no span is ever
\* emitted for such a mention.
C7_IndexError ==
    /\ \A k \in 1..doc :
          ~Overlong(k) =>
              \A m \in MentionsOf(examples[k].clusters) :
                  ~BadPair(m, examples[k].input_words)
    /\ pc = "raised" =>
          /\ self_examples = <<>>
          /\ ~Overlong(doc + 1)
          /\ raised \in {"KeyError", "ValueError"}
          /\ raised = "KeyError" =>
                \E m \in MentionsOf(examples[doc + 1].clusters) :
                    BadPair(m, examples[doc + 1].input_words)
    /\ (/\ pc \in {"done", "raised"}
        /\ doc < Len(examples)
        /\ \A m \in MentionsOf(examples[doc + 1].clusters) : IsPair(m)
        /\ \E m \in MentionsOf(examples[doc + 1].clusters) :
               BadPair(m, examples[doc + 1].input_words))
          => pc = "raised" /\ raised = "KeyError"

\* _tokenize raised on a document of two words whose only mention ends at
\* end_word_exclusive = 0
C7_Witness ==
    /\ pc = "raised"
    /\ raised = "KeyError"
    /\ Len(examples[doc + 1].input_words) = 2
    /\ examples[doc + 1].clusters = << <<(<<0, 0>>)>> >>

----------------------------------------------------------------------------
(* C8 *)

MentionCount(clusters) ==
    Cardinality(UNION {{<<c, j>> : j \in DOMAIN clusters[c]} : c \in DOMAIN clusters})

\* v is the largest of the values of S, or -1 when there is none; a bottom
\* value of 0 stands for "0 if a document has no clusters"
IsMaxOr(v, S, none) ==
    IF S = {} THEN v = none ELSE v \in S /\ \A x \in S : x <= v

\* C8: after _parse_jsonlines, max_mention_num is the maximum over documents of
\* the number of mentions of all clusters, max_cluster_size the maximum over all
\* clusters of the mention count (a document without clusters counting 0),
\* max_num_clusters the maximum over documents of the cluster count, all three
\* -1 for an empty corpus; so every parsed document has at most
\* max_num_clusters clusters of at most max_cluster_size mentions each.
C8_Maxima ==
    pc # "parse" =>
        /\ Len(examples) = Len(file)
        /\ IsMaxOr(max_mention_num,
                   {MentionCount(file[k].clusters) : k \in DOMAIN file}, -1)
        /\ IsMaxOr(max_cluster_size,
                   UNION {{Len(file[k].clusters[c]) : c \in DOMAIN file[k].clusters}
                             \cup {0} : k \in DOMAIN file}, -1)
        /\ IsMaxOr(max_num_clusters, {Len(file[k].clusters) : k \in DOMAIN file}, -1)
        /\ \A k \in DOMAIN examples :
              /\ Len(examples[k].clusters) <= max_num_clusters
              /\ \A c \in DOMAIN examples[k].clusters :
                    Len(examples[k].clusters[c]) <= max_cluster_size

\* a parsed corpus whose largest cluster, largest cluster count and largest
\* mention count are not all found in its last document
C8_Witness ==
    /\ pc = "tokenize"
    /\ Len(examples) = 3
    /\ max_mention_num = 3
    /\ max_cluster_size = 2
    /\ max_num_clusters = 2
    /\ examples[3].clusters = <<>>

----------------------------------------------------------------------------
(* C10 *)

\* C10: a record whose mentions are (sentence, start, end) triples is parsed
\* into an example with the same clusters in the same order, every mention a
\* pair of indices into the flattened words, and whose words are the
\* concatenation of its sentences in order.
C10_PairsFromTriples ==
    pc # "parse" =>
        \A k \in DOMAIN file :
            (\A m \in MentionsOf(file[k].clusters) : Len(m) = 3) =>
                /\ Len(examples[k].input_words)
                       = Cardinality(UNION {{<<s, j>> : j \in DOMAIN file[k].sentences[s]} :
                                               s \in DOMAIN file[k].sentences})
                /\ DOMAIN examples[k].clusters = DOMAIN file[k].clusters
                /\ \A c \in DOMAIN file[k].clusters :
                      /\ DOMAIN examples[k].clusters[c] = DOMAIN file[k].clusters[c]
                      /\ \A j \in DOMAIN file[k].clusters[c] :
                            Len(examples[k].clusters[c][j]) = 2

----------------------------------------------------------------------------
(* CorefDataset.pad_clusters *)

\* consts.NULL_ID_FOR_COREF: the coordinate of the null span
NULL_ID_FOR_COREF == -1

\* [x] * n: the empty list when n <= 0
Repeat(x, n) == [i \in 1..n |-> x]

\* lines 107-109
pad_clusters_inside(clusters) ==
    [c \in DOMAIN clusters |->
        clusters[c] \o Repeat(<<NULL_ID_FOR_COREF, NULL_ID_FOR_COREF>>,
                              max_cluster_size - Len(clusters[c]))]

\* lines 111-112
pad_clusters_outside(clusters) ==
    clusters \o Repeat(<<>>, max_num_clusters - Len(clusters))

\* lines 114-117 with the two paddings in the other order
pad_clusters_inside_first(clusters) ==
    [raised |-> "none",
     value |-> pad_clusters_outside(pad_clusters_inside(clusters)),
     arg |-> clusters]

\* lines 114-117: value is the list returned and arg the caller's list once the
\* call is over (both paddings build new lists with +, none writes to its
\* argument); no statement of the three functions raises
pad_clusters(clusters) ==
    [raised |-> "none",
     value |-> pad_clusters_inside(pad_clusters_outside(clusters)),
     arg |-> clusters]

----------------------------------------------------------------------------
(* CorefDataset.pad_batch, on the shapes of the tensors *)

\* line 131, torch.tensor(clusters): the shape of the tensor of a list of lists
\* of pairs; lists of different lengths make no tensor
TensorShape(clusters) ==
    LET sizes == {Len(clusters[c]) : c \in DOMAIN clusters}
    IN  IF clusters = <<>> THEN [raised |-> "none", shape |-> <<0>>]
        ELSE IF Cardinality(sizes) > 1 THEN [raised |-> "ValueError", shape |-> <<>>]
        ELSE IF sizes = {0} THEN [raised |-> "none", shape |-> <<Len(clusters), 0>>]
        ELSE [raised |-> "none", shape |-> <<Len(clusters), MaxOf(sizes), 2>>]

\* lines 123-129, encode_plus(..., pad_to_max_length=True, return_tensors='pt'):
\* input_ids and attention_mask of one example, with a leading dimension of 1
EncodedShape(maxlen) == <<1, maxlen>>

\* line 133 removing the leading dimension only
SqueezeFirst(shape) == IF shape # <<>> /\ shape[1] = 1 THEN Tail(shape) ELSE shape

\* line 133, tensor.squeeze(): every dimension of size 1 is removed
Squeeze(shape) == SelectSeq(shape, LAMBDA d : d # 1)

\* line 133, torch.stack(tensors, dim=0): tensors of one shape, a new leading
\* dimension
Stack(shapes) ==
    IF \E a, b \in DOMAIN shapes : shapes[a] # shapes[b]
    THEN [raised |-> "RuntimeError", shape |-> <<>>]
    ELSE [raised |-> "none", shape |-> <<Len(shapes)>> \o shapes[1]]

\* the cluster lists of a given shape (a list of cluster sizes), every slot
\* holding a different span
ClustersOfPadShape(shape) ==
    [c \in DOMAIN shape |-> [j \in 1..shape[c] |-> <<10 * c + j, 10 * c + j + 1>>]]

\* cluster lists of at most n clusters of at most m mentions
ClusterListsWithin(n, m) == {ClustersOfPadShape(sh) : sh \in SeqsUpTo(0..m, n)}

\* a dataset built from a corpus with at least one mention, about to pad
PadInit ==
    /\ file = <<>>
    /\ max_seq_length = -1
    /\ pc = "done"
    /\ examples = <<>>
    /\ max_mention_num = 0
    /\ max_cluster_size \in 1..MaxPadSize
    /\ max_num_clusters \in 1..MaxPadClusters
    /\ doc = 0
    /\ word_idx_to_start_token_idx = NoDict
    /\ word_idx_to_end_token_idx = NoDict
    /\ end_token_idx_to_word_idx = <<>>
    /\ token_ids = <<>>
    /\ coref_examples = <<>>
    /\ lengths = <<>>
    /\ num_examples_filtered = 0
    /\ raised = "none"
    /\ self_examples = <<>>
    /\ pad_pc = "idle"
    /\ clusters_arg = <<>>
    /\ clusters_given = <<>>
    /\ clusters_padded = [raised |-> "none", value |-> <<>>]
    /\ max_length = 0
    /\ padded_batch = <<>>
    /\ tensored_batch = [raised |-> "none", shapes |-> <<>>]

\* a call of pad_clusters on any list, within the dataset's maxima or not
PadClusters ==
    /\ pad_pc = "idle"
    /\ \E clusters \in ClusterListsWithin(MaxPadClusters + 1, MaxPadSize + 1) :
          LET r == pad_clusters(clusters)
          IN  /\ clusters_given' = clusters
              /\ clusters_arg' = r.arg
              /\ clusters_padded' = [raised |-> r.raised, value |-> r.value]
    /\ pad_pc' = "padded"
    /\ UNCHANGED <<loadVars, max_length, padded_batch, tensored_batch, cacheVars>>

\* lines 120-121: pad_batch is entered
PadBatchStart ==
    /\ pad_pc \in {"idle", "stacked", "raised"}
    /\ \E ml \in 0..MaxLength : max_length' = ml + 2
    /\ padded_batch' = <<>>
    /\ tensored_batch' = [raised |-> "none", shapes |-> <<>>]
    /\ pad_pc' = "loop"
    /\ UNCHANGED <<loadVars, clusters_arg, clusters_given, clusters_padded, cacheVars>>

\* lines 122-132: one iteration of the loop over the batch, on an example of the
\* dataset (its clusters are within the dataset's maxima)
PadBatchExample ==
    /\ pad_pc = "loop"
    /\ Len(padded_batch) < MaxBatch
    /\ \E clusters \in ClusterListsWithin(max_num_clusters, max_cluster_size) :
          LET t == TensorShape(pad_clusters(clusters).value)
          IN  IF t.raised # "none"
              THEN /\ pad_pc' = "raised"
                   /\ tensored_batch' = [raised |-> t.raised, shapes |-> <<>>]
                   /\ UNCHANGED padded_batch
              ELSE /\ padded_batch' =
                          Append(padded_batch,
                                 <<EncodedShape(max_length), EncodedShape(max_length),
                                   t.shape>>)
                   /\ UNCHANGED <<pad_pc, tensored_batch>>
    /\ UNCHANGED <<loadVars, clusters_arg, clusters_given, clusters_padded, max_length,
                   cacheVars>>

\* lines 133-134: the three stacks; after an empty batch the name example of
\* line 133 is unbound
PadBatchStack ==
    /\ pad_pc = "loop"
    /\ IF padded_batch = <<>>
       THEN /\ pad_pc' = "raised"
            /\ tensored_batch' = [raised |-> "UnboundLocalError", shapes |-> <<>>]
       ELSE LET st == [i \in 1..3 |->
                          Stack([e \in DOMAIN padded_batch |-> Squeeze(padded_batch[e][i])])]
            IN  IF \E i \in 1..3 : st[i].raised # "none"
                THEN /\ pad_pc' = "raised"
                     /\ tensored_batch' = [raised |-> "RuntimeError", shapes |-> <<>>]
                ELSE /\ pad_pc' = "stacked"
                     /\ tensored_batch' =
                            [raised |-> "none", shapes |-> [i \in 1..3 |-> st[i].shape]]
    /\ UNCHANGED <<loadVars, clusters_arg, clusters_given, clusters_padded, max_length,
                   padded_batch, cacheVars>>

PadNext == PadClusters \/ PadBatchStart \/ PadBatchExample \/ PadBatchStack

InitPad == PadInit /\ CacheUnused

SpecPad == InitPad /\ [][PadNext]_vars

----------------------------------------------------------------------------
(* C4, C5, C6 *)

\* a call of pad_clusters has returned and its outcome is in the state
PadClustersReturned == pad_pc = "padded"

WithinMaxima(clusters) ==
    /\ Len(clusters) <= max_num_clusters
    /\ \A c \in DOMAIN clusters : Len(clusters[c]) <= max_cluster_size

NullSpan == <<NULL_ID_FOR_COREF, NULL_ID_FOR_COREF>>

\* C4: for a non-empty batch of N examples and any corpus maxima (1 included),
\* pad_batch returns ids and mask of shape (N, L), L = max_length + 2, and
\* clusters of shape (N, max_num_clusters, max_cluster_size, 2).
C4_BatchShapes ==
    /\ pad_pc = "stacked" =>
          LET N == Len(padded_batch)
          IN  tensored_batch.shapes =
                  << <<N, max_length>>, <<N, max_length>>,
                     <<N, max_num_clusters, max_cluster_size, 2>> >>
    /\ pad_pc = "raised" => padded_batch = <<>>

\* C5: for a list of at most max_num_clusters clusters of at most
\* max_cluster_size mentions, pad_clusters returns exactly max_num_clusters
\* clusters of exactly max_cluster_size mentions; the mentions of the i-th
\* cluster lead the i-th output cluster in their order, every other slot is the
\* null span, and the caller's list is as it was.
C5_PadClusters ==
    (PadClustersReturned /\ WithinMaxima(clusters_given)) =>
        /\ clusters_padded.raised = "none"
        /\ Len(clusters_padded.value) = max_num_clusters
        /\ \A c \in 1..max_num_clusters :
              /\ Len(clusters_padded.value[c]) = max_cluster_size
              /\ \A j \in 1..max_cluster_size :
                    clusters_padded.value[c][j] =
                        IF c <= Len(clusters_given) /\ j <= Len(clusters_given[c])
                        THEN clusters_given[c][j]
                        ELSE NullSpan
        /\ clusters_arg = clusters_given
        /\ (max_cluster_size = 3 /\ max_num_clusters = 2
                /\ clusters_given = << <<(<<11, 12>>), (<<12, 13>>)>> >>) =>
              clusters_padded.value =
                  << <<(<<11, 12>>), (<<12, 13>>), NullSpan>>,
                     <<NullSpan, NullSpan, NullSpan>> >>

\* maxima of 3 and 2, one cluster of two mentions: a tail slot and a whole
\* appended cluster are padded
C5_Witness ==
    /\ pad_pc = "padded"
    /\ max_cluster_size = 3
    /\ max_num_clusters = 2
    /\ clusters_given = << <<(<<11, 12>>), (<<12, 13>>)>> >>
    /\ Len(clusters_padded.value) = 2

\* C6: given more than max_num_clusters clusters, or a cluster of more than
\* max_cluster_size mentions, pad_clusters fails with an assertion error and
\* returns nothing.
C6_OversizeAsserts ==
    (PadClustersReturned /\ ~WithinMaxima(clusters_given)) =>
        clusters_padded.raised = "AssertionError"

----------------------------------------------------------------------------
(* get_dataset and the files it works on *)

\* lines 19-24: CorefDataset(file_path, tokenizer, max_seq_length) on a file of
\* the given lines: the exception that leaves the constructor, or the object
CorefDataset(lines, maxlen) ==
    LET p == _parse_jsonlines(lines)
        t == _tokenize(p.examples, maxlen)
    IN  [raised |-> t.raised,
         self |-> [max_mention_num |-> p.max_mention_num,
                   max_cluster_size |-> p.max_cluster_size,
                   max_num_clusters |-> p.max_num_clusters,
                   max_seq_length |-> maxlen,
                   examples |-> t.coref_examples,
                   lengths |-> t.lengths,
                   num_examples_filtered |-> t.num_examples_filtered]]

NoDataset == CorefDataset(<<>>, -1).self

\* line 155, pickle.dump: the serialized object
Pickle(obj) == <<"pickle", obj>>

\* line 149, pickle.load
Unpickle(blob) == blob[2]

NoBlob == Pickle(NoDataset)

Absent == [exists |-> FALSE, lines |-> <<>>, pickled |-> NoBlob]

CorpusFile(lines) == [exists |-> TRUE, lines |-> lines, pickled |-> NoBlob]

CacheFile(blob) == [exists |-> TRUE, lines |-> <<>>, pickled |-> blob]

\* the four paths of args; they name four different files
Paths == {"train_file", "predict_file", "train_file_cache", "predict_file_cache"}

\* line 151: the corpus file and the cache file of the split
SplitPaths(evaluate) ==
    IF evaluate
    THEN [file_path |-> "predict_file", cache_path |-> "predict_file_cache"]
    ELSE [file_path |-> "train_file", cache_path |-> "train_file_cache"]

\* lines 138-144 without the "not evaluate" of the second test
ExistingCacheOfAnySplit(d, evaluate) ==
    IF evaluate /\ d["predict_file_cache"].exists
    THEN [read_from_cache |-> TRUE, file_path |-> "predict_file_cache"]
    ELSE IF d["train_file_cache"].exists
    THEN [read_from_cache |-> TRUE, file_path |-> "train_file_cache"]
    ELSE [read_from_cache |-> FALSE, file_path |-> ""]

\* lines 138-144: whether the split's cache file exists, and its path
ExistingCache(d, evaluate) ==
    IF evaluate /\ d["predict_file_cache"].exists
    THEN [read_from_cache |-> TRUE, file_path |-> "predict_file_cache"]
    ELSE IF (~evaluate) /\ d["train_file_cache"].exists
    THEN [read_from_cache |-> TRUE, file_path |-> "train_file_cache"]
    ELSE [read_from_cache |-> FALSE, file_path |-> ""]

\* lines 137-157: the outcome of get_dataset(args, tokenizer, evaluate) on the
\* files d: the files afterwards, the exception or the value returned, and the
\* files it read and wrote
get_dataset(d, a, evaluate) ==
    LET c == ExistingCache(d, evaluate)
        sp == SplitPaths(evaluate)
        coref_dataset == CorefDataset(d[sp.file_path].lines, a.max_seq_length)
    IN  IF c.read_from_cache
        THEN [disk |-> d, raised |-> "none",
              value |-> Unpickle(d[c.file_path].pickled),
              reads |-> {c.file_path}, writes |-> {}]
        ELSE IF coref_dataset.raised # "none"
        THEN [disk |-> d, raised |-> coref_dataset.raised, value |-> NoDataset,
              reads |-> {sp.file_path}, writes |-> {}]
        ELSE [disk |-> [d EXCEPT ![sp.cache_path] = CacheFile(Pickle(coref_dataset.self))],
              raised |-> "none", value |-> coref_dataset.self,
              reads |-> {sp.file_path}, writes |-> {sp.cache_path}]

\* the files of a split, as the properties below name them
CachePath(split) == IF split THEN "predict_file_cache" ELSE "train_file_cache"

CorpusPath(split) == IF split THEN "predict_file" ELSE "train_file"

\* the corpus files a split may hold: empty, a document that is dropped under a
\* small budget, a longer one, and one whose mention is out of range
CacheCorpora ==
    {<<>>,
     <<Record("1", << <<"He", "Johnson">> >>, << <<(<<0, 2>>)>> >>)>>,
     <<Record("1", << <<"He">> >>, <<>>), Record("2", << <<"Johnson">> >>, <<>>)>>,
     <<Record("1", << <<"He">> >>, << <<(<<0, 2>>)>> >>)>>}

CacheSeqLengths == {-1, 1, MaxSeqLen}

NoCall ==
    [made |-> FALSE, evaluate |-> FALSE, cache_existed |-> FALSE, raised |-> "none",
     value |-> NoDataset, reads |-> {}, writes |-> {}]

NotBuilt == [built |-> FALSE, value |-> NoDataset]

CacheInit ==
    /\ \E tr \in CacheCorpora, pr \in CacheCorpora :
          disk = [p \in Paths |->
                     CASE p = "train_file" -> CorpusFile(tr)
                       [] p = "predict_file" -> CorpusFile(pr)
                       [] OTHER -> Absent]
    /\ args \in [max_seq_length : CacheSeqLengths]
    /\ call = NoCall
    /\ first_built = [split \in BOOLEAN |-> NotBuilt]

LoadUnused ==
    /\ file = <<>>
    /\ max_seq_length = -1
    /\ pc = "unused"
    /\ examples = <<>>
    /\ max_mention_num = -1
    /\ max_cluster_size = -1
    /\ max_num_clusters = -1
    /\ doc = 0
    /\ word_idx_to_start_token_idx = NoDict
    /\ word_idx_to_end_token_idx = NoDict
    /\ end_token_idx_to_word_idx = <<>>
    /\ token_ids = <<>>
    /\ coref_examples = <<>>
    /\ lengths = <<>>
    /\ num_examples_filtered = 0
    /\ raised = "none"
    /\ self_examples = <<>>

\* a call of get_dataset for one of the splits
GetDataset ==
    \E evaluate \in BOOLEAN :
        LET r == get_dataset(disk, args, evaluate)
        IN  /\ disk' = r.disk
            /\ call' = [made |-> TRUE, evaluate |-> evaluate,
                        cache_existed |-> disk[CachePath(evaluate)].exists,
                        raised |-> r.raised, value |-> r.value,
                        reads |-> r.reads, writes |-> r.writes]
            /\ first_built' =
                   IF r.raised = "none" /\ r.writes # {} /\ ~first_built[evaluate].built
                   THEN [first_built EXCEPT ![evaluate] = [built |-> TRUE, value |-> r.value]]
                   ELSE first_built
            /\ UNCHANGED <<args, loadVars, padVars>>

\* between two calls the corpus file of a split is replaced
ChangeCorpus ==
    /\ \E p \in {"train_file", "predict_file"}, c \in CacheCorpora :
          /\ disk[p].lines # c
          /\ disk' = [disk EXCEPT ![p] = CorpusFile(c)]
    /\ UNCHANGED <<args, call, first_built, loadVars, padVars>>

\* between two calls args.max_seq_length is changed
ChangeMaxSeqLength ==
    /\ \E m \in CacheSeqLengths :
          /\ m # args.max_seq_length
          /\ args' = [args EXCEPT !.max_seq_length = m]
    /\ UNCHANGED <<disk, call, first_built, loadVars, padVars>>

InitCache == LoadUnused /\ PadUnused /\ CacheInit

CacheNext == GetDataset \/ ChangeCorpus \/ ChangeMaxSeqLength

SpecCache == InitCache /\ [][CacheNext]_vars

----------------------------------------------------------------------------
(* C9 *)

\* C9: a get_dataset call for a split whose cache file exists returns the cached
\* collection, reads no corpus file and writes nothing; otherwise it builds the
\* collection from the split's corpus file, writes it to the split's cache file
\* and returns it. So every call after the first returns what the first call
\* built, whatever became of the corpus file and of max_seq_length, and a call
\* never reads or writes the other split's files.
C9_Cache ==
    /\ \A split \in BOOLEAN :
          /\ disk[CachePath(split)].exists = first_built[split].built
          /\ first_built[split].built =>
                Unpickle(disk[CachePath(split)].pickled) = first_built[split].value
    /\ (call.made /\ call.raised = "none") =>
          /\ first_built[call.evaluate].built
          /\ call.value = first_built[call.evaluate].value
          /\ IF call.cache_existed
             THEN call.reads = {CachePath(call.evaluate)} /\ call.writes = {}
             ELSE /\ call.reads = {CorpusPath(call.evaluate)}
                  /\ call.writes = {CachePath(call.evaluate)}
    /\ call.made =>
          (call.reads \cup call.writes)
              \cap {CachePath(~call.evaluate), CorpusPath(~call.evaluate)} = {}
    /\ (call.made /\ call.raised # "none") => ~call.cache_existed /\ call.writes = {}

\* a call answered from the cache although the corpus file and max_seq_length
\* are no longer those the cached collection was built from
C9_Witness ==
    /\ call.made
    /\ call.cache_existed
    /\ call.raised = "none"
    /\ call.value.max_seq_length # args.max_seq_length
    /\ call.value.examples # <<>>
    /\ disk[CorpusPath(call.evaluate)].lines = <<>>
    /\ disk[CachePath(~call.evaluate)].exists

====
